---------------------------- MODULE Spec2Model ----------------------------
(***************************************************************************)
(* Model of the question extractor of app.py.                              *)
(*                                                                         *)
(* A text is a sequence of one-character strings, indexed from 1.  The     *)
(* regular expressions of the source are translated one by one into        *)
(* matchers over such sequences: each matcher follows the order in which   *)
(* Python's backtracking engine tries the alternatives (greedy runs are    *)
(* maximal, lazy groups are minimal, re.findall resumes at the end of the  *)
(* previous match).                                                        *)
(***************************************************************************)
EXTENDS Integers, Sequences, FiniteSets, TLC

VARIABLES
    pc,                \* "idle", "loop" (lines 55-92), "scan" (lines 115-134),
                       \* "return" (lines 94-100), "done"
    pdf,               \* the document at pdf_path, as pdfplumber presents it
    full_text,         \* the text accumulated by the page loop
    selected,          \* the index of the pattern that broke the pattern loop, 0 for none
    matches,           \* matches after the pattern loop
    lines,             \* lines of extract_by_splitting
    cursor,            \* the index of the next element of matches or of lines
    questions,         \* questions, of either function
    current_question,  \* current_question of extract_by_splitting
    current_options,   \* current_options of extract_by_splitting
    path,              \* the return statement taken: "except", "fallback", "cascade"
    ret,               \* the list returned to the caller
    session,           \* Flask's session of the one client: a dict
    data_folder,       \* the files of DATA_FOLDER: session id -> stored questions
    upload_folder,     \* the names of the files of UPLOAD_FOLDER
    clock,             \* time.time(), in seconds
    uuid_count,        \* the number of ids uuid.uuid4() has handed out
    response,          \* the response to the last request
    tally_session      \* history: the session id whose submit wrote the tallies

\* The variables of one call of the extractor.
evars == <<pc, pdf, full_text, selected, matches, lines, cursor, questions,
           current_question, current_options, path, ret>>

\* The variables of the web application.
svars == <<session, data_folder, upload_folder, clock, uuid_count, response,
           tally_session>>

vars == <<evars, svars>>

-----------------------------------------------------------------------------
(* Characters and character classes of the regular expressions.            *)

Digits == {"0", "1", "2", "3", "4", "5", "6", "7", "8", "9"}

\* \s and str.strip(), on the characters the texts below are made of
Whitespace == {" ", "\n", "\t"}

OptionDelims == {".", ":", ")"}

OptionDigits == {"1", "2", "3", "4"}

\* The character at position i of t, "" when i is outside the text.
At(t, i) == IF i \in 1..Len(t) THEN t[i] ELSE ""

IsDigit(c) == c \in Digits

IsSpace(c) == c \in Whitespace

\* [^\n] and [^\n\d]: a character is needed, so "" (no character) is in neither.
IsNotNewline(c) == c # "" /\ c # "\n"

IsNotNewlineDigit(c) == c # "" /\ c # "\n" /\ c \notin Digits

\* The literal w occurs in t at position i.
LitAt(t, i, w) == /\ i >= 1
                  /\ i + Len(w) - 1 <= Len(t)
                  /\ \A k \in 1..Len(w) : t[i + k - 1] = w[k]

\* End of a greedy run: the first position p >= i whose character is not in
\* the class P (Len(t) + 1 when the run reaches the end of the text).
RunEnd(t, i, P(_)) ==
    CHOOSE p \in i..(Len(t) + 1) :
        /\ ~P(At(t, p))
        /\ \A q \in i..(p - 1) : P(t[q])

\* The first position p in i..hi at which P holds, 0 when there is none.
FirstPos(i, hi, P(_)) ==
    IF \E p \in i..hi : P(p)
    THEN CHOOSE p \in i..hi : P(p) /\ \A q \in i..(p - 1) : ~P(q)
    ELSE 0

\* t[i..j-1], Python's t[i:j] on 1-based positions.
Slice(t, i, j) == SubSeq(t, i, j - 1)

\* str.strip()
Strip(t) ==
    LET lo == RunEnd(t, 1, IsSpace)
    IN  IF lo > Len(t) THEN <<>>
        ELSE LET hi == CHOOSE p \in lo..Len(t) :
                           /\ ~IsSpace(t[p])
                           /\ \A q \in (p + 1)..Len(t) : IsSpace(t[q])
             IN SubSeq(t, lo, hi)

\* str.replace('\n', ' ')
ReplaceNewlines(t) == [i \in 1..Len(t) |-> IF t[i] = "\n" THEN " " ELSE t[i]]

\* Take with the last n elements kept, seq[-n:].
Take_Last(s, n) == IF Len(s) <= n THEN s ELSE SubSeq(s, Len(s) - n + 1, Len(s))

\* seq[:n]
Take(s, n) == IF Len(s) <= n THEN s ELSE SubSeq(s, 1, n)

W_Ans == <<"A", "n", "s">>

W_Question == <<"Q", "u", "e", "s", "t", "i", "o", "n">>

\* $ without re.MULTILINE: the end of the text, or just before a final newline.
Dollar(t, p) == p = Len(t) + 1 \/ (p = Len(t) /\ t[p] = "\n")

-----------------------------------------------------------------------------
(* The pattern cascade (patterns, lines 39-43).  For pattern k,             *)
(* ContentStart(k, t, i) is the position where group 2 starts when the      *)
(* pattern's head matches at i (0 when it does not), and Lookahead(k, t, p) *)
(* is the lookahead that ends the lazy group 2.                             *)

\* Q\.\d+
LA_QDot(t, p) == LitAt(t, p, <<"Q", ".">>) /\ IsDigit(At(t, p + 2))

\* Q\d+\.
LA_QNum(t, p) ==
    /\ At(t, p) = "Q"
    /\ IsDigit(At(t, p + 1))
    /\ At(t, RunEnd(t, p + 1, IsDigit)) = "."

\* Ans\s*\d+
LA_AnsNum(t, p) ==
    /\ LitAt(t, p, W_Ans)
    /\ IsDigit(At(t, RunEnd(t, p + 3, IsSpace)))

\* Question\s+\d+
LA_Question(t, p) ==
    /\ LitAt(t, p, W_Question)
    /\ IsSpace(At(t, p + 8))
    /\ IsDigit(At(t, RunEnd(t, p + 8, IsSpace)))

Lookahead(k, t, p) ==
    CASE k = 1 -> LA_QDot(t, p) \/ LA_AnsNum(t, p) \/ Dollar(t, p)
      [] k = 2 -> LA_QNum(t, p) \/ LA_AnsNum(t, p) \/ Dollar(t, p)
      [] k = 3 -> LA_Question(t, p) \/ LitAt(t, p, W_Ans) \/ Dollar(t, p)

\* Q\.(\d+)\s+
Head1(t, i) ==
    IF LA_QDot(t, i)
    THEN LET d == RunEnd(t, i + 2, IsDigit)
         IN  IF IsSpace(At(t, d)) THEN RunEnd(t, d, IsSpace) ELSE 0
    ELSE 0

\* Q(\d+)\.\s+
Head2(t, i) ==
    IF LA_QNum(t, i)
    THEN LET d == RunEnd(t, i + 1, IsDigit)
         IN  IF IsSpace(At(t, d + 1)) THEN RunEnd(t, d + 1, IsSpace) ELSE 0
    ELSE 0

\* Question\s+(\d+)(?:.*?\n): the rest of the marker's line is skipped.
Head3(t, i) ==
    IF LA_Question(t, i)
    THEN LET d  == RunEnd(t, RunEnd(t, i + 8, IsSpace), IsDigit)
             nl == FirstPos(d, Len(t), LAMBDA p : t[p] = "\n")
         IN  IF nl = 0 THEN 0 ELSE nl + 1
    ELSE 0

ContentStart(k, t, i) ==
    CASE k = 1 -> Head1(t, i)
      [] k = 2 -> Head2(t, i)
      [] k = 3 -> Head3(t, i)

\* The first character of a match of pattern k (a cheap pre-test).
FirstChar(k, t, i) == t[i] = "Q"

\* re.findall(patterns[k], t, re.DOTALL), scanning from position i on and
\* stopping after n matches: the captured regions (group 2) of the successive
\* non-overlapping matches, left to right, and the position where the scan
\* would resume.  The scan is cut in halves to keep the evaluation shallow.
RECURSIVE FindUpTo(_, _, _, _)
FindUpTo(k, t, i, n) ==
    IF n = 0 \/ i > Len(t) THEN [found |-> <<>>, pos |-> i]
    ELSE IF n = 1
    THEN LET j == FirstPos(i, Len(t),
                           LAMBDA p : FirstChar(k, t, p)
                                          /\ ContentStart(k, t, p) > 0)
         IN  IF j = 0 THEN [found |-> <<>>, pos |-> Len(t) + 1]
             ELSE LET s == ContentStart(k, t, j)
                      e == FirstPos(s, Len(t) + 1,
                                    LAMBDA p : Lookahead(k, t, p))
                  IN  [found |-> <<Slice(t, s, e)>>, pos |-> e]
    ELSE LET a == FindUpTo(k, t, i, n \div 2)
             b == FindUpTo(k, t, a.pos, n - (n \div 2))
         IN  [found |-> a.found \o b.found, pos |-> b.pos]

\* Every match starts at a "Q", so t has no more matches than it has "Q"s.
FindAll(k, t) ==
    FindUpTo(k, t, 1, Cardinality({p \in 1..Len(t) : t[p] = "Q"})).found

NumPatterns == 3


-----------------------------------------------------------------------------
(* The question/option splitter (lines 55-89).                              *)

\* ans_match = re.search(r'(.*?)\s*Ans\s*[:\s]*(.*)', content, re.DOTALL):
\* the position of the first "Ans" in content, 0 when there is none.
AnsPos(content) ==
    FirstPos(1, Len(content), LAMBDA p : LitAt(content, p, W_Ans))

IsAnsGap(c) == c \in Whitespace \cup {":"}

\* ans_match.group(1).strip(): the lazy group ends where \s*Ans starts.
AnsGroup1(content) == Strip(Slice(content, 1, AnsPos(content)))

\* ans_match.group(2).strip(): what follows Ans\s*[:\s]*
AnsGroup2(content) ==
    Strip(Slice(content, RunEnd(content, AnsPos(content) + 3, IsAnsGap),
                Len(content) + 1))

\* content.split('\n', 1)
FirstNewline(content) ==
    FirstPos(1, Len(content), LAMBDA p : content[p] = "\n")

SplitPart0(content) ==
    IF FirstNewline(content) = 0 THEN content
    ELSE Slice(content, 1, FirstNewline(content))

SplitPart1(content) ==
    IF FirstNewline(content) = 0 THEN <<>>
    ELSE Slice(content, FirstNewline(content) + 1, Len(content) + 1)

\* question_text of a stripped region (lines 60-68)
QuestionText(content) ==
    IF AnsPos(content) > 0 THEN AnsGroup1(content)
    ELSE Strip(SplitPart0(content))

\* options_text of a stripped region (lines 60-68)
OptionsText(content) ==
    IF AnsPos(content) > 0 THEN AnsGroup2(content)
    ELSE Strip(SplitPart1(content))

\* The head of option pattern o at position i, up to and including the
\* delimiter: Ans\s*(\d+)[\.:)] for o = 1, (\d+)[\.:)] for o = 2.  The value is
\* the position after the delimiter, 0 when the head does not match.
OptHead(o, t, i) ==
    LET d0 == IF o = 1 THEN RunEnd(t, i + 3, IsSpace) ELSE i
        d1 == RunEnd(t, d0, IsDigit)
    IN  IF /\ (o = 1 => LitAt(t, i, W_Ans))
           /\ IsDigit(At(t, d0))
           /\ At(t, d1) \in OptionDelims
        THEN d1 + 1
        ELSE 0

\* \s*([^\n\d]+ ...: where the option's text starts, w being the position
\* after the delimiter.  \s* is greedy but gives characters back until
\* [^\n\d]+ finds one character; 0 when it finds none.
OptTextStart(t, w) ==
    LET r == RunEnd(t, w, IsSpace)
    IN  IF IsNotNewlineDigit(At(t, r)) THEN r
        ELSE IF \E q \in w..(r - 1) : t[q] # "\n"
             THEN CHOOSE q \in w..(r - 1) :
                      t[q] # "\n" /\ \A q2 \in (q + 1)..(r - 1) : t[q2] = "\n"
             ELSE 0

\* The negative lookahead of the continuation lines: (?!Ans\s*\d) for o = 1,
\* (?!\d+[\.:)]) for o = 2.
OptNextStarts(o, t, p) ==
    IF o = 1 THEN LA_AnsNum(t, p)
    ELSE IsDigit(At(t, p)) /\ At(t, RunEnd(t, p, IsDigit)) \in OptionDelims

\* (?:\n(?!...)[^\n]+)* from position e: the end of the last continuation line.
RECURSIVE OptContinue(_, _, _)
OptContinue(o, t, e) ==
    IF /\ At(t, e) = "\n"
       /\ ~OptNextStarts(o, t, e + 1)
       /\ IsNotNewline(At(t, e + 1))
    THEN OptContinue(o, t, RunEnd(t, e + 1, IsNotNewline))
    ELSE e

\* re.findall(option_patterns[o], t) from position i on, each match mapped to
\* opt[1].strip().replace('\n', ' ') (line 79).
RECURSIVE OptFindAllFrom(_, _, _)
OptFindAllFrom(o, t, i) ==
    LET Starts(p) == /\ OptHead(o, t, p) > 0
                     /\ OptTextStart(t, OptHead(o, t, p)) > 0
        j == FirstPos(i, Len(t), Starts)
    IN  IF j = 0 THEN <<>>
        ELSE LET s == OptTextStart(t, OptHead(o, t, j))
                 e == OptContinue(o, t, RunEnd(t, s, IsNotNewlineDigit))
             IN  <<ReplaceNewlines(Strip(Slice(t, s, e)))>>
                     \o OptFindAllFrom(o, t, e)

OptFindAll(o, t) == OptFindAllFrom(o, t, 1)

MinOptionMatches == 3

\* ExtractOptions with 2 matches enough for a pattern to be accepted.
ExtractOptions_AtLeastTwo(options_text) ==
    IF Len(OptFindAll(1, options_text)) >= 2
    THEN OptFindAll(1, options_text)
    ELSE IF Len(OptFindAll(2, options_text)) >= 2
         THEN OptFindAll(2, options_text)
         ELSE <<>>

\* for opt_pattern in option_patterns: ... break (lines 70-80)
ExtractOptions(options_text) ==
    IF Len(OptFindAll(1, options_text)) >= MinOptionMatches
    THEN OptFindAll(1, options_text)
    ELSE IF Len(OptFindAll(2, options_text)) >= MinOptionMatches
         THEN OptFindAll(2, options_text)
         ELSE <<>>

MinBodyLen == 10

MinOptions == 2

MaxBodyLen == 800

MaxOptions == 4

MaxQuestions == 100

Ellipsis == <<".", ".", ".">>

\* The body and the options of one captured region (lines 57-80).
SplitRegion(match) ==
    LET content == Strip(match)
    IN  [question_text |-> QuestionText(content),
         options       |-> ExtractOptions(OptionsText(content))]

\* Accepted without the option count of line 82.
Accepted_BodyOnly(r) ==
    Len(r.question_text) > 0 /\ Len(r.question_text) > MinBodyLen

\* The acceptance filter of line 82.
Accepted(r) ==
    /\ Len(r.question_text) > 0
    /\ Len(r.question_text) > MinBodyLen
    /\ Len(r.options) >= MinOptions

\* CapBody with >= for the > of line 83.
CapBody_AtLimit(question_text) ==
    IF Len(question_text) >= MaxBodyLen
    THEN SubSeq(question_text, 1, MaxBodyLen) \o Ellipsis
    ELSE question_text

\* The length cap of lines 83-84.
CapBody(question_text) ==
    IF Len(question_text) > MaxBodyLen
    THEN SubSeq(question_text, 1, MaxBodyLen) \o Ellipsis
    ELSE question_text

\* MakeRecord without the [:4] of line 88.
MakeRecord_NoCap(r) ==
    [question |-> IF Len(r.question_text) > MaxBodyLen
                  THEN SubSeq(r.question_text, 1, MaxBodyLen) \o Ellipsis
                  ELSE r.question_text,
     options  |-> r.options]

\* The record appended at lines 86-89.
MakeRecord(r) ==
    [question |-> CapBody(r.question_text),
     options  |-> Take(r.options, MaxOptions)]

\* The body of the loop over matches for one match (lines 56-89): the
\* value of questions after it, qs being its value before.
AppendIfAccepted(qs, match) ==
    IF Accepted(SplitRegion(match))
    THEN Append(qs, MakeRecord(SplitRegion(match)))
    ELSE qs

\* BreaksLoop with > for the >= of line 91.
BreaksLoop_OffByOne(qs, match) ==
    Accepted(SplitRegion(match)) /\ Len(AppendIfAccepted(qs, match)) > MaxQuestions

\* if len(questions) >= 100: break (lines 91-92), reached only after an append
BreaksLoop(qs, match) ==
    Accepted(SplitRegion(match)) /\ Len(AppendIfAccepted(qs, match)) >= MaxQuestions

-----------------------------------------------------------------------------
(* The line-scan fallback, extract_by_splitting (lines 109-142).            *)

\* The next n items of text.split('\n') from position i on, and the position
\* after the newline that ends the last of them.  The text is cut in halves
\* to keep the evaluation shallow.
RECURSIVE TakeLines(_, _, _)
TakeLines(t, i, n) ==
    IF n = 1
    THEN LET nl == FirstPos(i, Len(t), LAMBDA p : t[p] = "\n")
         IN  IF nl = 0 THEN [found |-> <<Slice(t, i, Len(t) + 1)>>,
                             pos   |-> Len(t) + 2]
             ELSE [found |-> <<Slice(t, i, nl)>>, pos |-> nl + 1]
    ELSE LET a == TakeLines(t, i, n \div 2)
             b == TakeLines(t, a.pos, n - (n \div 2))
         IN  [found |-> a.found \o b.found, pos |-> b.pos]

\* text.split('\n'): one item more than the text has newlines
SplitLines(t) ==
    TakeLines(t, 1, Cardinality({p \in 1..Len(t) : t[p] = "\n"}) + 1).found

\* ^Q\.?\s*\d+ : the position of the first digit, 0 when the line does not match
QMarkerDigits(line) ==
    IF At(line, 1) = "Q"
    THEN LET k == RunEnd(line, IF At(line, 2) = "." THEN 3 ELSE 2, IsSpace)
         IN  IF IsDigit(At(line, k)) THEN k ELSE 0
    ELSE 0

\* re.match(r'^Q\.?\s*\d+', line) or re.match(r'^Question\s+\d+', line)
IsQuestionStart(line) == QMarkerDigits(line) > 0 \/ LA_Question(line, 1)

\* re.sub(r'^Q\.?\s*\d+\s*', '', line)
StripQuestionMarker(line) ==
    IF QMarkerDigits(line) > 0
    THEN Slice(line,
               RunEnd(line, RunEnd(line, QMarkerDigits(line), IsDigit), IsSpace),
               Len(line) + 1)
    ELSE line

\* re.match(r'^[1-4][\.:)]', line) or re.match(r'^Ans\s*[1-4]', line)
IsOptionLine(line) ==
    \/ At(line, 1) \in OptionDigits /\ At(line, 2) \in OptionDelims
    \/ /\ LitAt(line, 1, W_Ans)
       /\ At(line, RunEnd(line, 4, IsSpace)) \in OptionDigits

\* re.sub(r'^(?:Ans\s*)?[1-4][\.:)]\s*', '', line)
StripOptionMarker(line) ==
    LET d == IF LitAt(line, 1, W_Ans) THEN RunEnd(line, 4, IsSpace) ELSE 1
    IN  IF At(line, d) \in OptionDigits /\ At(line, d + 1) \in OptionDelims
        THEN Slice(line, RunEnd(line, d + 2, IsSpace), Len(line) + 1)
        ELSE line

\* current_question = None
NoQuestion == [is_none |-> TRUE, text |-> <<>>]

\* Python's truth value of current_question: neither None nor ''
Truthy(cq) == ~cq.is_none /\ Len(cq.text) > 0

\* if current_question and current_options: questions.append(...)
\* (lines 119-123 and 136-140)
EmitPending(st) ==
    IF Truthy(st.current_question) /\ Len(st.current_options) > 0
    THEN Append(st.questions,
                [question |-> st.current_question.text,
                 options  |-> Take(st.current_options, MaxOptions)])
    ELSE st.questions

\* One iteration of the scan loop (lines 115-134).
ScanLine(st, raw_line) ==
    LET line == Strip(raw_line)
    IN  IF IsQuestionStart(line)
        THEN [questions        |-> EmitPending(st),
              current_question |-> [is_none |-> FALSE,
                                    text    |-> StripQuestionMarker(line)],
              current_options  |-> <<>>]
        ELSE IF IsOptionLine(line)
        THEN IF Len(StripOptionMarker(line)) > 0
             THEN [st EXCEPT !.current_options =
                                 Append(@, StripOptionMarker(line))]
             ELSE st
        ELSE IF Truthy(st.current_question) /\ Len(st.current_options) = 0
        THEN [st EXCEPT !.current_question.text = @ \o <<" ">> \o line]
        ELSE st

-----------------------------------------------------------------------------
(* The fixed records of lines 94-98 and 102-107.                            *)

\* 'No questions could be extracted from this PDF. ...' (line 96)
NoQuestionsText ==
    <<"N", "o", " ", "q", "u", "e", "s", "t", "i", "o", "n", "s", " ", "c",
      "o", "u", "l", "d", " ", "b", "e", " ", "e", "x", "t", "r", "a", "c",
      "t", "e", "d", " ", "f", "r", "o", "m", " ", "t", "h", "i", "s", " ",
      "P", "D", "F", ".", " ", "P", "l", "e", "a", "s", "e", " ", "e", "n",
      "s", "u", "r", "e", " ", "t", "h", "e", " ", "P", "D", "F", " ", "c",
      "o", "n", "t", "a", "i", "n", "s", " ", "t", "e", "x", "t", " ", "(",
      "n", "o", "t", " ", "i", "m", "a", "g", "e", "s", ")", " ", "a", "n",
      "d", " ", "f", "o", "l", "l", "o", "w", "s", " ", "s", "t", "a", "n",
      "d", "a", "r", "d", " ", "q", "u", "e", "s", "t", "i", "o", "n", " ",
      "f", "o", "r", "m", "a", "t", ".">>

\* 'Try another PDF'
TryAnotherPdf ==
    <<"T", "r", "y", " ", "a", "n", "o", "t", "h", "e", "r", " ", "P", "D",
      "F">>

\* 'Check PDF format'
CheckPdfFormat ==
    <<"C", "h", "e", "c", "k", " ", "P", "D", "F", " ", "f", "o", "r", "m",
      "a", "t">>

\* 'Contact support'
ContactSupport ==
    <<"C", "o", "n", "t", "a", "c", "t", " ", "s", "u", "p", "p", "o", "r",
      "t">>

\* 'Go back'
GoBack ==
    <<"G", "o", " ", "b", "a", "c", "k">>

\* 'Error processing PDF: '
ErrorPrefix ==
    <<"E", "r", "r", "o", "r", " ", "p", "r", "o", "c", "e", "s", "s", "i",
      "n", "g", " ", "P", "D", "F", ":", " ">>

\* 'Try again'
TryAgain ==
    <<"T", "r", "y", " ", "a", "g", "a", "i", "n">>

\* 'Upload different file'
UploadDifferentFile ==
    <<"U", "p", "l", "o", "a", "d", " ", "d", "i", "f", "f", "e", "r", "e",
      "n", "t", " ", "f", "i", "l", "e">>

\* 'Check file format'
CheckFileFormat ==
    <<"C", "h", "e", "c", "k", " ", "f", "i", "l", "e", " ", "f", "o", "r",
      "m", "a", "t">>

\* str(e) of the TypeError raised by None + "\n" (line 36)
NoneTypeMessage ==
    <<"u", "n", "s", "u", "p", "p", "o", "r", "t", "e", "d", " ", "o", "p",
      "e", "r", "a", "n", "d", " ", "t", "y", "p", "e", "(", "s", ")", " ",
      "f", "o", "r", " ", "+", ":", " ", "'", "N", "o", "n", "e", "T", "y",
      "p", "e", "'", " ", "a", "n", "d", " ", "'", "s", "t", "r", "'">>

\* The record returned when no region was accepted (lines 94-98).
PlaceholderRecord ==
    [question |-> NoQuestionsText,
     options  |-> <<TryAnotherPdf, CheckPdfFormat, ContactSupport, GoBack>>]

\* The record returned by the except branch (lines 102-107).
ErrorRecord(message) ==
    [question |-> ErrorPrefix \o message,
     options  |-> <<TryAgain, UploadDifferentFile, CheckFileFormat, GoBack>>]

-----------------------------------------------------------------------------
(* extract_questions_from_pdf (lines 25-107).                               *)

\* ReadPages with a page without text read as the empty text, as
\* (page.extract_text() or "") + "\n" would.
RECURSIVE ReadPages_SkipNone(_, _, _)
ReadPages_SkipNone(pages, i, text) ==
    IF i > Len(pages) THEN [ok |-> TRUE, text |-> text, message |-> <<>>]
    ELSE CASE pages[i].kind = "text" ->
                  ReadPages_SkipNone(pages, i + 1,
                                     text \o pages[i].text \o <<"\n">>)
           [] pages[i].kind = "none" ->
                  ReadPages_SkipNone(pages, i + 1, text \o <<"\n">>)
           [] pages[i].kind = "raise" ->
                  [ok |-> FALSE, text |-> text, message |-> pages[i].text]

\* for page in pdf.pages: full_text += page.extract_text() + "\n" (lines 34-36),
\* from page i on.  A page yields its text, or None (the concatenation then
\* raises TypeError), or extract_text itself raises.
RECURSIVE ReadPages(_, _, _)
ReadPages(pages, i, text) ==
    IF i > Len(pages) THEN [ok |-> TRUE, text |-> text, message |-> <<>>]
    ELSE CASE pages[i].kind = "text" ->
                  ReadPages(pages, i + 1, text \o pages[i].text \o <<"\n">>)
           [] pages[i].kind = "none" ->
                  [ok |-> FALSE, text |-> text, message |-> NoneTypeMessage]
           [] pages[i].kind = "raise" ->
                  [ok |-> FALSE, text |-> text, message |-> pages[i].text]

\* with pdfplumber.open(pdf_path) as pdf: ... (lines 33-36)
ReadPdf(doc) ==
    IF doc.opens THEN ReadPages(doc.pages, 1, <<>>)
    ELSE [ok |-> FALSE, text |-> <<>>, message |-> doc.error]

\* SelectedPattern with the pattern of most matches preferred to the first
\* pattern with a match.
SelectedPattern_MostMatches(text) ==
    IF \E k \in 1..NumPatterns : FindAll(k, text) # <<>>
    THEN CHOOSE k \in 1..NumPatterns :
             /\ \A j \in 1..NumPatterns :
                    Len(FindAll(j, text)) <= Len(FindAll(k, text))
             /\ \A j \in 1..(k - 1) :
                    Len(FindAll(j, text)) < Len(FindAll(k, text))
    ELSE 0

\* for pattern in patterns: matches = re.findall(...); if matches: break
\* (lines 45-49): the first pattern with a match, 0 when no pattern has one.
SelectedPattern(text) ==
    IF \E k \in 1..NumPatterns : FindAll(k, text) # <<>>
    THEN CHOOSE k \in 1..NumPatterns :
             /\ FindAll(k, text) # <<>>
             /\ \A j \in 1..(k - 1) : FindAll(j, text) = <<>>
    ELSE 0

\* Matches with a pattern used only when it has more than 5 matches.
Matches_MoreThanFive(text) ==
    IF SelectedPattern(text) = 0 THEN <<>>
    ELSE IF Len(FindAll(SelectedPattern(text), text)) > 5
         THEN FindAll(SelectedPattern(text), text)
         ELSE <<>>

\* The value of matches after the pattern loop: the matches of the pattern
\* that broke the loop, or the empty list of the last pattern.
Matches(text) ==
    IF SelectedPattern(text) = 0 THEN <<>>
    ELSE FindAll(SelectedPattern(text), text)

\* FallbackReturn without the [:100] of line 53.
FallbackReturn_NoCap(qs) == qs

\* return questions[:100] (line 53)
FallbackReturn(qs) == Take(qs, MaxQuestions)

\* CascadeReturn without the placeholder of lines 94-98.
CascadeReturn_NoPlaceholder(qs) == qs

\* if not questions: return [placeholder]; return questions (lines 94-100)
CascadeReturn(qs) == IF qs = <<>> THEN <<PlaceholderRecord>> ELSE qs

\* except Exception as e: return [error record] (lines 102-107)
ExceptReturn(message) == <<ErrorRecord(message)>>

-----------------------------------------------------------------------------
(* The documents the extractor is run on.                                   *)

MaxPages == 2

LongRun == 801

Repeats == 101

Rep(c, n) == [i \in 1..n |-> c]

RepeatText(block, n) ==
    [i \in 1..(n * Len(block)) |-> block[((i - 1) % Len(block)) + 1]]

\* 'Q.1 What is 2+2?\nAns 1. Three\nAns 2. Four\nAns 3. Five'
PageSum ==
    <<"Q", ".", "1", " ", "W", "h", "a", "t", " ", "i", "s", " ", "2", "+",
      "2", "?", "\n", "A", "n", "s", " ", "1", ".", " ", "T", "h", "r", "e",
      "e", "\n", "A", "n", "s", " ", "2", ".", " ", "F", "o", "u", "r", "\n",
      "A", "n", "s", " ", "3", ".", " ", "F", "i", "v", "e">>

\* 'Q.2 Capital of France?\nAns 1. Paris\nAns 2. Lyon\nAns 3. Nice'
PageFrance ==
    <<"Q", ".", "2", " ", "C", "a", "p", "i", "t", "a", "l", " ", "o", "f",
      " ", "F", "r", "a", "n", "c", "e", "?", "\n", "A", "n", "s", " ", "1",
      ".", " ", "P", "a", "r", "i", "s", "\n", "A", "n", "s", " ", "2", ".",
      " ", "L", "y", "o", "n", "\n", "A", "n", "s", " ", "3", ".", " ", "N",
      "i", "c", "e">>

\* 'Q.3 Pick the prime\n1. four\n2) five\n3: six\n4. eight\n5. nine'
PagePrime ==
    <<"Q", ".", "3", " ", "P", "i", "c", "k", " ", "t", "h", "e", " ", "p",
      "r", "i", "m", "e", "\n", "1", ".", " ", "f", "o", "u", "r", "\n", "2",
      ")", " ", "f", "i", "v", "e", "\n", "3", ":", " ", "s", "i", "x", "\n",
      "4", ".", " ", "e", "i", "g", "h", "t", "\n", "5", ".", " ", "n", "i",
      "n", "e">>

\* 'Q.4 Too short\n1. a\n2. b\n3. c'
PageShort ==
    <<"Q", ".", "4", " ", "T", "o", "o", " ", "s", "h", "o", "r", "t", "\n",
      "1", ".", " ", "a", "\n", "2", ".", " ", "b", "\n", "3", ".", " ", "c">>

\* 'Q.5 Only two options\n1. yes\n2. no'
PageTwoOpts ==
    <<"Q", ".", "5", " ", "O", "n", "l", "y", " ", "t", "w", "o", " ", "o",
      "p", "t", "i", "o", "n", "s", "\n", "1", ".", " ", "y", "e", "s", "\n",
      "2", ".", " ", "n", "o">>

\* 'Q6. Largest planet? Ans: 1. Mars\n2. Venus\n3. Jupiter\nQ7. Smallest planet?\n1. Mercury\n2. Pluto\n3. Ceres'
PagePlanets ==
    <<"Q", "6", ".", " ", "L", "a", "r", "g", "e", "s", "t", " ", "p", "l",
      "a", "n", "e", "t", "?", " ", "A", "n", "s", ":", " ", "1", ".", " ",
      "M", "a", "r", "s", "\n", "2", ".", " ", "V", "e", "n", "u", "s", "\n",
      "3", ".", " ", "J", "u", "p", "i", "t", "e", "r", "\n", "Q", "7", ".",
      " ", "S", "m", "a", "l", "l", "e", "s", "t", " ", "p", "l", "a", "n",
      "e", "t", "?", "\n", "1", ".", " ", "M", "e", "r", "c", "u", "r", "y",
      "\n", "2", ".", " ", "P", "l", "u", "t", "o", "\n", "3", ".", " ", "C",
      "e", "r", "e", "s">>

\* 'Question 7\nWhich is a noble gas?\n1. Neon\n2. Iron\n3. Zinc'
PageGas ==
    <<"Q", "u", "e", "s", "t", "i", "o", "n", " ", "7", "\n", "W", "h", "i",
      "c", "h", " ", "i", "s", " ", "a", " ", "n", "o", "b", "l", "e", " ",
      "g", "a", "s", "?", "\n", "1", ".", " ", "N", "e", "o", "n", "\n", "2",
      ".", " ", "I", "r", "o", "n", "\n", "3", ".", " ", "Z", "i", "n", "c">>

\* 'Q 8 Which river is longest\n1. Nile\n2. Indus'
PageRiver ==
    <<"Q", " ", "8", " ", "W", "h", "i", "c", "h", " ", "r", "i", "v", "e",
      "r", " ", "i", "s", " ", "l", "o", "n", "g", "e", "s", "t", "\n", "1",
      ".", " ", "N", "i", "l", "e", "\n", "2", ".", " ", "I", "n", "d", "u",
      "s">>

\* 'and flows north'
PagePlain ==
    <<"a", "n", "d", " ", "f", "l", "o", "w", "s", " ", "n", "o", "r", "t",
      "h">>

\* '3. Volga\n4) Rhine\nAns 1: Seine'
PageOptions ==
    <<"3", ".", " ", "V", "o", "l", "g", "a", "\n", "4", ")", " ", "R", "h",
      "i", "n", "e", "\n", "A", "n", "s", " ", "1", ":", " ", "S", "e", "i",
      "n", "e">>

\* str(e) of the error pdfplumber.open raises on a file that is no PDF
OpenError ==
    <<"N", "o", " ", "/", "R", "o", "o", "t", " ", "o", "b", "j", "e", "c",
      "t", "!", " ", "-", " ", "I", "s", " ", "t", "h", "i", "s", " ", "r",
      "e", "a", "l", "l", "y", " ", "a", " ", "P", "D", "F", "?">>

\* str(e) of an error raised by page.extract_text()
PageError ==
    <<"U", "n", "e", "x", "p", "e", "c", "t", "e", "d", " ", "E", "O", "F">>

\* 'Q.9 '
LongHead ==
    <<"Q", ".", "9", " ">>

\* 'Q 9 '
LongHeadFallback ==
    <<"Q", " ", "9", " ">>

\* '\n1. a\n2. b\n3. c'
ThreeOptions ==
    <<"\n", "1", ".", " ", "a", "\n", "2", ".", " ", "b", "\n", "3", ".",
      " ", "c">>

\* one accepted region of the cascade
ManyBlock ==
    <<"Q", ".", "1", " ", "x", "x", "x", "x", "x", "x", "x", "x", "x", "x",
      "x", "\n", "1", ".", " ", "a", "\n", "2", ".", " ", "b", "\n", "3",
      ".", " ", "c", "\n">>

\* one record of the fallback
ManyBlockFallback ==
    <<"Q", " ", "1", " ", "x", "\n", "1", ".", " ", "a", "\n">>

\* A cascade question whose body has LongRun characters.
PageLong == LongHead \o Rep("x", LongRun) \o ThreeOptions

\* A cascade question whose body has LongRun - 1 characters.
PageEdge == LongHead \o Rep("x", LongRun - 1) \o ThreeOptions

\* A fallback question whose first line has LongRun characters after the
\* marker and whose body goes on for one more line.
PageLongFallback ==
    LongHeadFallback \o Rep("x", LongRun) \o <<"\n">> \o PagePlain \o ThreeOptions

\* '\n1. a\n2. b'
TwoOptions ==
    <<"\n", "1", ".", " ", "a", "\n", "2", ".", " ", "b">>

\* A cascade question whose body has LongRun + 100 characters, with two
\* option lines.
PageLongTwo == LongHead \o Rep("x", LongRun + 100) \o TwoOptions

\* 'Pick the even one\n3. one\n1. two\n1. two\n2) four\n4: six'
ShuffledBody ==
    <<"P", "i", "c", "k", " ", "t", "h", "e", " ", "e", "v", "e", "n", " ",
      "o", "n", "e", "\n", "3", ".", " ", "o", "n", "e", "\n", "1", ".", " ",
      "t", "w", "o", "\n", "1", ".", " ", "t", "w", "o", "\n", "2", ")", " ",
      "f", "o", "u", "r", "\n", "4", ":", " ", "s", "i", "x">>

\* A cascade question whose option labels are out of order and repeated.
PageShuffled == LongHead \o ShuffledBody

\* The same question for the line scan.
PageShuffledFallback == LongHeadFallback \o ShuffledBody

\* Repeats accepted regions of the cascade.
PageMany == RepeatText(ManyBlock, Repeats)

\* Repeats records of the fallback.
PageManyFallback == RepeatText(ManyBlockFallback, Repeats)

\* 'Question 1\nWhich metal is liquid?\n1. Iron\n2. Mercury\n3. Zinc\n'
QuizBlock ==
    <<"Q", "u", "e", "s", "t", "i", "o", "n", " ", "1", "\n", "W", "h", "i",
      "c", "h", " ", "m", "e", "t", "a", "l", " ", "i", "s", " ", "l", "i",
      "q", "u", "i", "d", "?", "\n", "1", ".", " ", "I", "r", "o", "n", "\n",
      "2", ".", " ", "M", "e", "r", "c", "u", "r", "y", "\n", "3", ".", " ",
      "Z", "i", "n", "c", "\n">>

\* Five questions written as Question <n> lines with numbered option lines.
PageQuiz == RepeatText(QuizBlock, 5)

TextPage(t) == [kind |-> "text", text |-> t]

SmallTexts ==
    {PageSum, PageFrance, PagePrime, PageShort, PageTwoOpts, PagePlanets,
     PageGas, PageRiver, PagePlain, PageOptions, <<>>}

LargeTexts ==
    {PageEdge, PageLong, PageLongFallback, PageLongTwo, PageMany,
     PageManyFallback, PageQuiz, PageShuffled, PageShuffledFallback}

\* What page.extract_text() does on a page: return text, return None, raise.
SmallPages ==
    {TextPage(t) : t \in SmallTexts}
        \cup {[kind |-> "none", text |-> <<>>],
              [kind |-> "raise", text |-> PageError]}

PageSeqs ==
    UNION {[1..n -> SmallPages] : n \in 0..MaxPages}
        \cup {<<TextPage(t)>> : t \in LargeTexts}

Docs ==
    {[opens |-> TRUE, error |-> <<>>, pages |-> ps] : ps \in PageSeqs}
        \cup {[opens |-> FALSE, error |-> OpenError, pages |-> <<>>]}

-----------------------------------------------------------------------------
(* The web application at start: no request was served yet.                 *)

\* {}
EmptyDict == [k \in {} |-> 0]

\* The response before the first request.
NoResponse == [kind |-> "none", to |-> "", shown |-> EmptyDict]

\* The state of the application when it starts (lines 9-18): the client has
\* no session and both folders are empty.
NoSession ==
    /\ session = EmptyDict
    /\ data_folder = EmptyDict
    /\ upload_folder = {}
    /\ clock = 0
    /\ uuid_count = 0
    /\ response = NoResponse
    /\ tally_session = 0

-----------------------------------------------------------------------------
(* The state machine: one call of extract_questions_from_pdf(pdf_path).     *)

Init ==
    /\ pc = "idle"
    /\ pdf = [opens |-> TRUE, error |-> <<>>, pages |-> <<>>]
    /\ full_text = <<>>
    /\ selected = 0
    /\ matches = <<>>
    /\ lines = <<>>
    /\ cursor = 1
    /\ questions = <<>>
    /\ current_question = NoQuestion
    /\ current_options = <<>>
    /\ path = "none"
    /\ ret = <<>>
    /\ NoSession

\* Lines 30-52 and 102-107: the document is read and the pattern loop run.
\* A failed read ends the call in the except branch; without a match the
\* call enters extract_by_splitting (lines 110-113); otherwise it enters the
\* loop over matches.
ReadAndMatch(doc) ==
    /\ pc = "idle"
    /\ pdf' = doc
    /\ LET rd == ReadPdf(doc)
       IN  /\ full_text' = rd.text
           /\ IF ~rd.ok
              THEN /\ pc' = "done"
                   /\ path' = "except"
                   /\ ret' = ExceptReturn(rd.message)
                   /\ UNCHANGED <<selected, matches, lines>>
              ELSE /\ selected' = SelectedPattern(rd.text)
                   /\ matches' = Matches(rd.text)
                   /\ IF Matches(rd.text) = <<>>
                      THEN pc' = "scan" /\ lines' = SplitLines(rd.text)
                      ELSE pc' = "loop" /\ UNCHANGED lines
                   /\ UNCHANGED <<path, ret>>
    /\ UNCHANGED <<cursor, questions, current_question, current_options>>
    /\ UNCHANGED svars

\* One iteration of for match in matches (lines 55-92).
ProcessMatch ==
    /\ pc = "loop"
    /\ cursor <= Len(matches)
    /\ questions' = AppendIfAccepted(questions, matches[cursor])
    /\ cursor' = cursor + 1
    /\ pc' = IF BreaksLoop(questions, matches[cursor]) THEN "return" ELSE "loop"
    /\ UNCHANGED <<pdf, full_text, selected, matches, lines, current_question,
                   current_options, path, ret>>
    /\ UNCHANGED svars

\* Lines 94-100, after the loop has ended or was left by break.
ReturnQuestions ==
    /\ pc = "return" \/ (pc = "loop" /\ cursor > Len(matches))
    /\ ret' = CascadeReturn(questions)
    /\ path' = "cascade"
    /\ pc' = "done"
    /\ UNCHANGED <<pdf, full_text, selected, matches, lines, cursor, questions,
                   current_question, current_options>>
    /\ UNCHANGED svars

\* One iteration of for line in lines (lines 115-134).
ScanStep ==
    /\ pc = "scan"
    /\ cursor <= Len(lines)
    /\ LET st == ScanLine([questions        |-> questions,
                           current_question |-> current_question,
                           current_options  |-> current_options], lines[cursor])
       IN  /\ questions' = st.questions
           /\ current_question' = st.current_question
           /\ current_options' = st.current_options
    /\ cursor' = cursor + 1
    /\ UNCHANGED <<pc, pdf, full_text, selected, matches, lines, path, ret>>
    /\ UNCHANGED svars

\* Lines 136-142 and line 53: the pending question is emitted, and
\* extract_questions_from_pdf returns the first MaxQuestions records.
ScanReturn ==
    /\ pc = "scan"
    /\ cursor > Len(lines)
    /\ questions' = EmitPending([questions        |-> questions,
                                 current_question |-> current_question,
                                 current_options  |-> current_options])
    /\ ret' = FallbackReturn(questions')
    /\ path' = "fallback"
    /\ pc' = "done"
    /\ UNCHANGED <<pdf, full_text, selected, matches, lines, cursor,
                   current_question, current_options>>
    /\ UNCHANGED svars

Next ==
    \/ \E doc \in Docs : ReadAndMatch(doc)
    \/ ProcessMatch
    \/ ReturnQuestions
    \/ ScanStep
    \/ ScanReturn

Spec == Init /\ [][Next]_vars

-----------------------------------------------------------------------------
(* The line scan on its own: one call of extract_by_splitting(text), on     *)
(* texts made of a few lines of each kind the scan distinguishes.           *)

MaxLines == 3

\* 'Q.1 Alpha'
LineQDot ==
    <<"Q", ".", "1", " ", "A", "l", "p", "h", "a">>

\* 'Q 2'
LineQAlone ==
    <<"Q", " ", "2">>

\* 'Question 3 Beta'
LineQuestion ==
    <<"Q", "u", "e", "s", "t", "i", "o", "n", " ", "3", " ", "B", "e", "t",
      "a">>

\* '1. one'
LineOne ==
    <<"1", ".", " ", "o", "n", "e">>

\* 'Ans 2) two'
LineAnsTwo ==
    <<"A", "n", "s", " ", "2", ")", " ", "t", "w", "o">>

\* '4:'
LineEmptyOption ==
    <<"4", ":">>

\* ' gamma '
LinePlain ==
    <<" ", "g", "a", "m", "m", "a", " ">>

LineKinds ==
    {LineQDot, LineQAlone, LineQuestion, LineOne, LineAnsTwo, LineEmptyOption,
     LinePlain, <<>>}

\* '\n'.join(ls)
RECURSIVE JoinLines(_)
JoinLines(ls) ==
    IF ls = <<>> THEN <<>>
    ELSE IF Len(ls) = 1 THEN ls[1]
    ELSE ls[1] \o <<"\n">> \o JoinLines(Tail(ls))

\* 'Q.1 Alpha\n3. c\n1. a\n1. a\nAns 2) b\n4. d\n gamma\nQ 2\n1. x\nmore\nQuestion 3 Beta\nmore\n2: y\n1. z'
ScanLong ==
    <<"Q", ".", "1", " ", "A", "l", "p", "h", "a", "\n", "3", ".", " ", "c",
      "\n", "1", ".", " ", "a", "\n", "1", ".", " ", "a", "\n", "A", "n", "s",
      " ", "2", ")", " ", "b", "\n", "4", ".", " ", "d", "\n", " ", "g", "a",
      "m", "m", "a", "\n", "Q", " ", "2", "\n", "1", ".", " ", "x", "\n", "m",
      "o", "r", "e", "\n", "Q", "u", "e", "s", "t", "i", "o", "n", " ", "3",
      " ", "B", "e", "t", "a", "\n", "m", "o", "r", "e", "\n", "2", ":", " ",
      "y", "\n", "1", ".", " ", "z">>

ScanTexts ==
    {JoinLines(ls) : ls \in UNION {[1..n -> LineKinds] : n \in 0..MaxLines}}
        \cup {ScanLong}

\* extract_by_splitting(text) is entered (lines 110-113).
ScanInit ==
    /\ pc = "scan"
    /\ pdf = [opens |-> TRUE, error |-> <<>>, pages |-> <<>>]
    /\ full_text \in ScanTexts
    /\ selected = 0
    /\ matches = <<>>
    /\ lines = SplitLines(full_text)
    /\ cursor = 1
    /\ questions = <<>>
    /\ current_question = NoQuestion
    /\ current_options = <<>>
    /\ path = "none"
    /\ ret = <<>>
    /\ NoSession

ScanNext ==
    \/ ScanStep
    \/ ScanReturn

ScanSpec == ScanInit /\ [][ScanNext]_vars

-----------------------------------------------------------------------------
(* The extractor as one function of the document, for the documents that    *)
(* are uploaded below.                                                      *)

\* for match in matches: ... (lines 55-92), from match i on, qs being the
\* value of questions so far.
RECURSIVE LoopFrom(_, _, _)
LoopFrom(ms, i, qs) ==
    IF i > Len(ms) THEN qs
    ELSE IF BreaksLoop(qs, ms[i]) THEN AppendIfAccepted(qs, ms[i])
    ELSE LoopFrom(ms, i + 1, AppendIfAccepted(qs, ms[i]))

\* for line in lines: ... (lines 115-134) from line i on, and the emission
\* of lines 136-140.
RECURSIVE ScanFrom(_, _, _)
ScanFrom(ls, i, st) ==
    IF i > Len(ls) THEN EmitPending(st)
    ELSE ScanFrom(ls, i + 1, ScanLine(st, ls[i]))

\* extract_by_splitting(text) (lines 109-142)
extract_by_splitting(text) ==
    ScanFrom(SplitLines(text), 1,
             [questions        |-> <<>>,
              current_question |-> NoQuestion,
              current_options  |-> <<>>])

\* extract_questions_from_pdf(pdf_path) (lines 25-107)
extract_questions_from_pdf(doc) ==
    LET rd == ReadPdf(doc)
    IN  IF ~rd.ok THEN ExceptReturn(rd.message)
        ELSE IF Matches(rd.text) = <<>>
        THEN FallbackReturn(extract_by_splitting(rd.text))
        ELSE CascadeReturn(LoopFrom(Matches(rd.text), 1, <<>>))

\* A PDF without pages, and PDFs of one and of two questions.
DocNoPages == [opens |-> TRUE, error |-> <<>>, pages |-> <<>>]

DocGas == [opens |-> TRUE, error |-> <<>>, pages |-> <<TextPage(PageGas)>>]

DocPlanets ==
    [opens |-> TRUE, error |-> <<>>, pages |-> <<TextPage(PagePlanets)>>]

UploadDocs == {DocNoPages, DocGas, DocPlanets}

\* questions = extract_questions_from_pdf(filepath) (line 177), for each of
\* the documents.
Extracted == [doc \in UploadDocs |-> extract_questions_from_pdf(doc)]

-----------------------------------------------------------------------------
(* The web application (lines 20-23 and 144-333): one client, whose         *)
(* requests are served one after the other.                                 *)

MaxUploads == 2

MaxClock == 75

\* d.get(k, default)
Get(d, k, default) == IF k \in DOMAIN d THEN d[k] ELSE default

\* d[k] = v
Put(d, k, v) == [x \in DOMAIN d \cup {k} |-> IF x = k THEN v ELSE d[x]]

\* d.pop(k, None)
Pop(d, k) == [x \in DOMAIN d \ {k} |-> d[x]]

UpperCase ==
    <<"A", "B", "C", "D", "E", "F", "G", "H", "I", "J", "K", "L", "M", "N",
      "O", "P", "Q", "R", "S", "T", "U", "V", "W", "X", "Y", "Z">>

LowerCase ==
    <<"a", "b", "c", "d", "e", "f", "g", "h", "i", "j", "k", "l", "m", "n",
      "o", "p", "q", "r", "s", "t", "u", "v", "w", "x", "y", "z">>

\* str.lower()
Lower(t) ==
    [i \in 1..Len(t) |->
        IF \E k \in 1..26 : UpperCase[k] = t[i]
        THEN LowerCase[CHOOSE k \in 1..26 : UpperCase[k] = t[i]]
        ELSE t[i]]

\* ALLOWED_EXTENSIONS (line 20)
ALLOWED_EXTENSIONS == {<<"p", "d", "f">>}

\* filename.rsplit('.', 1)[1], for a filename with a '.'
Extension(filename) ==
    LET dot == CHOOSE p \in 1..Len(filename) :
                   /\ filename[p] = "."
                   /\ \A q \in (p + 1)..Len(filename) : filename[q] # "."
    IN  Slice(filename, dot + 1, Len(filename) + 1)

\* allowed_file(filename) (lines 22-23)
allowed_file(filename) ==
    /\ \E p \in 1..Len(filename) : filename[p] = "."
    /\ Lower(Extension(filename)) \in ALLOWED_EXTENSIONS

\* secure_filename(filename), for names of letters, dots and single inner
\* spaces: each space becomes an underscore.
secure_filename(filename) ==
    [i \in 1..Len(filename) |-> IF filename[i] = " " THEN "_" ELSE filename[i]]

\* 'my exam.PDF'
MyExamPdf ==
    <<"m", "y", " ", "e", "x", "a", "m", ".", "P", "D", "F">>

\* 'notes.txt'
NotesTxt ==
    <<"n", "o", "t", "e", "s", ".", "t", "x", "t">>

\* 'pdf'
NoDot ==
    <<"p", "d", "f">>

\* file.filename of an upload: '' when the form was sent without a file.
FileNames == {<<>>, MyExamPdf, NotesTxt, NoDot}

\* The duration field of the upload form: not sent, '30', or left empty.
DurationForms ==
    {EmptyDict, [duration |-> <<"3", "0">>], [duration |-> <<>>]}

\* The upload requests: without a file part; with a file part whose name is
\* empty or has no allowed extension; with a PDF, each document with each
\* duration field.
UploadRequests ==
    {[has_file |-> FALSE, filename |-> <<>>, form |-> EmptyDict,
      doc |-> DocNoPages]}
        \cup {[has_file |-> TRUE, filename |-> name, form |-> EmptyDict,
               doc |-> DocGas] : name \in FileNames \ {MyExamPdf}}
        \cup {[has_file |-> TRUE, filename |-> MyExamPdf, form |-> form,
               doc |-> doc] : form \in DurationForms, doc \in UploadDocs}

\* The answer field of the exam form: not sent, left empty, or an option.
AnswerForms == {EmptyDict, [answer |-> ""], [answer |-> "A"], [answer |-> "B"]}

\* int(s) succeeds on a text s: s is a run of digits.
IsNumeral(s) == s # <<>> /\ \A i \in 1..Len(s) : s[i] \in Digits

DigitValue(c) == CHOOSE n \in 0..9 : ToString(n) = c

\* int(s), for a run of digits
RECURSIVE ParseInt(_)
ParseInt(s) ==
    IF s = <<>> THEN 0
    ELSE 10 * ParseInt(SubSeq(s, 1, Len(s) - 1)) + DigitValue(s[Len(s)])

\* The default of request.form.get('duration', 30) and session.get('duration', 30)
DefaultDuration == 30

\* redirect(url_for(endpoint))
Redirect(endpoint) == [kind |-> "redirect", to |-> endpoint, shown |-> EmptyDict]

\* render_template(template, **shown)
Render(template, shown) == [kind |-> "render", to |-> template, shown |-> shown]

\* The response to a request whose handler raised.
ServerError(exception) ==
    [kind |-> "error", to |-> exception, shown |-> EmptyDict]

\* load_questions_from_file(session_id) (lines 149-155): None when there is
\* no file.
load_questions_from_file(session_id) ==
    IF session_id \in DOMAIN data_folder
    THEN [is_none |-> FALSE, list |-> data_folder[session_id]]
    ELSE [is_none |-> TRUE, list |-> <<>>]

\* not questions: None or the empty list
NotQuestions(loaded) == loaded.is_none \/ loaded.list = <<>>

\* request.form.get('answer') is truthy
HasAnswer(form) == "answer" \in DOMAIN form /\ form["answer"] # ""

\* if selected_answer: session['answers'][str(current)] = selected_answer
\* (lines 226-230, 248-252 and 285-289): the session after it.
RecordAnswer(sess, form) ==
    IF HasAnswer(form)
    THEN Put(sess, "answers",
             Put(Get(sess, "answers", EmptyDict),
                 ToString(Get(sess, "current_question", 0)), form["answer"]))
    ELSE sess

\* session[...] = ... of lines 183-184
SessionOpened(sess, session_id) ==
    Put(Put(sess, "session_id", session_id), "current_question", 0)

\* session[...] = ... of lines 183-187
SessionStarted(sess, session_id, duration, now) ==
    Put(Put(Put(SessionOpened(sess, session_id), "duration", duration),
            "answers", EmptyDict),
        "start_time", now)

\* f"{minutes}m {seconds}s" (lines 297-304)
TimeTaken(time_taken) ==
    ToString(time_taken \div 60) \o "m " \o ToString(time_taken % 60) \o "s"

\* session[...] = ... of lines 291-304
SessionTallied(sess, total_questions, now) ==
    LET answered == Cardinality(DOMAIN Get(sess, "answers", EmptyDict))
    IN  Put(Put(Put(Put(sess, "total_questions", total_questions),
                    "answered", answered),
                "unanswered", total_questions - answered),
            "time_taken", TimeTaken(now - Get(sess, "start_time", now)))

\* session.pop(...) of lines 324-327
SessionEnded(sess) ==
    Pop(Pop(Pop(Pop(sess, "session_id"), "current_question"), "answers"),
        "start_time")

\* index() (lines 157-159)
Index ==
    /\ response' = Render("upload.html", EmptyDict)
    /\ UNCHANGED <<session, data_folder, upload_folder, clock, uuid_count,
                   tally_session>>
    /\ UNCHANGED evars

\* upload() (lines 161-196).  int(duration) of line 185 raises ValueError on
\* a field that is no number, after lines 175-184 have run: the uploaded file
\* and the questions file stay, and the session, which Flask writes to the
\* cookie when it answers 500 and leaves alone when the exception reaches the
\* debugger, is either as lines 183-184 left it or as it was.
Upload(has_file, filename, form, doc) ==
    /\ IF ~has_file \/ filename = <<>> \/ ~allowed_file(filename)
       THEN /\ response' = Redirect("index")
            /\ UNCHANGED <<session, data_folder, upload_folder, uuid_count>>
       ELSE /\ uuid_count < MaxUploads
            /\ uuid_count' = uuid_count + 1
            /\ data_folder' = Put(data_folder, uuid_count', Extracted[doc])
            /\ IF "duration" \in DOMAIN form /\ ~IsNumeral(form["duration"])
               THEN /\ upload_folder' =
                           upload_folder \cup {secure_filename(filename)}
                    /\ session' \in {session,
                                     SessionOpened(session, uuid_count')}
                    /\ response' = ServerError("ValueError")
               ELSE /\ upload_folder' =
                           upload_folder \ {secure_filename(filename)}
                    /\ session' =
                           SessionStarted(
                               session, uuid_count',
                               IF "duration" \in DOMAIN form
                               THEN ParseInt(form["duration"])
                               ELSE DefaultDuration,
                               clock)
                    /\ response' = Redirect("exam")
    /\ UNCHANGED <<clock, tally_session>>
    /\ UNCHANGED evars

\* exam() (lines 198-216)
Exam ==
    /\ IF "session_id" \notin DOMAIN session
       THEN response' = Redirect("index")
       ELSE LET loaded  == load_questions_from_file(session["session_id"])
                current == Get(session, "current_question", 0)
            IN  IF NotQuestions(loaded) THEN response' = Redirect("index")
                ELSE IF current + 1 \notin 1..Len(loaded.list)
                THEN response' = ServerError("IndexError")
                ELSE response' =
                         Render("exam.html",
                                [question        |-> loaded.list[current + 1],
                                 question_num    |-> current + 1,
                                 total_questions |-> Len(loaded.list),
                                 duration        |->
                                     Get(session, "duration", DefaultDuration)])
    /\ UNCHANGED <<session, data_folder, upload_folder, clock, uuid_count,
                   tally_session>>
    /\ UNCHANGED evars

\* answer() (lines 218-232)
Answer(form) ==
    /\ IF "session_id" \notin DOMAIN session
       THEN /\ response' = Redirect("index")
            /\ UNCHANGED session
       ELSE /\ session' = RecordAnswer(session, form)
            /\ response' = Redirect("exam")
    /\ UNCHANGED <<data_folder, upload_folder, clock, uuid_count,
                   tally_session>>
    /\ UNCHANGED evars

\* NextQuestion with the index advanced before the answer is recorded.
NextQuestion_AdvanceFirst(form) ==
    /\ IF "session_id" \notin DOMAIN session
       THEN /\ response' = Redirect("index")
            /\ UNCHANGED session
       ELSE LET loaded  == load_questions_from_file(session["session_id"])
                current == Get(session, "current_question", 0)
            IN  IF NotQuestions(loaded)
                THEN /\ response' = Redirect("index")
                     /\ UNCHANGED session
                ELSE /\ session' =
                            RecordAnswer(
                                IF current < Len(loaded.list) - 1
                                THEN Put(session, "current_question",
                                         current + 1)
                                ELSE session,
                                form)
                     /\ response' = Redirect("exam")
    /\ UNCHANGED <<data_folder, upload_folder, clock, uuid_count,
                   tally_session>>
    /\ UNCHANGED evars

\* next_question() (lines 234-257)
NextQuestion(form) ==
    /\ IF "session_id" \notin DOMAIN session
       THEN /\ response' = Redirect("index")
            /\ UNCHANGED session
       ELSE LET loaded  == load_questions_from_file(session["session_id"])
                current == Get(session, "current_question", 0)
            IN  IF NotQuestions(loaded)
                THEN /\ response' = Redirect("index")
                     /\ UNCHANGED session
                ELSE /\ session' =
                            IF current < Len(loaded.list) - 1
                            THEN Put(RecordAnswer(session, form),
                                     "current_question", current + 1)
                            ELSE RecordAnswer(session, form)
                     /\ response' = Redirect("exam")
    /\ UNCHANGED <<data_folder, upload_folder, clock, uuid_count,
                   tally_session>>
    /\ UNCHANGED evars

\* previous_question() (lines 259-269): the form is not read.
PreviousQuestion(form) ==
    /\ IF "session_id" \notin DOMAIN session
       THEN /\ response' = Redirect("index")
            /\ UNCHANGED session
       ELSE /\ session' =
                   IF Get(session, "current_question", 0) > 0
                   THEN Put(session, "current_question",
                            Get(session, "current_question", 0) - 1)
                   ELSE session
            /\ response' = Redirect("exam")
    /\ UNCHANGED <<data_folder, upload_folder, clock, uuid_count,
                   tally_session>>
    /\ UNCHANGED evars

\* submit() (lines 271-312)
Submit(form) ==
    /\ IF "session_id" \notin DOMAIN session
       THEN /\ response' = Redirect("index")
            /\ UNCHANGED <<session, data_folder, tally_session>>
       ELSE LET loaded == load_questions_from_file(session["session_id"])
            IN  IF NotQuestions(loaded)
                THEN /\ response' = Redirect("index")
                     /\ UNCHANGED <<session, data_folder, tally_session>>
                ELSE /\ session' =
                            SessionTallied(RecordAnswer(session, form),
                                           Len(loaded.list), clock)
                     /\ data_folder' = Pop(data_folder, session["session_id"])
                     /\ tally_session' = session["session_id"]
                     /\ response' = Redirect("results")
    /\ UNCHANGED <<upload_folder, clock, uuid_count>>
    /\ UNCHANGED evars

\* results() (lines 314-333)
Results ==
    /\ IF "session_id" \notin DOMAIN session
       THEN /\ response' = Redirect("index")
            /\ UNCHANGED session
       ELSE /\ response' =
                   Render("results.html",
                          [total_questions |-> Get(session, "total_questions", 0),
                           answered        |-> Get(session, "answered", 0),
                           unanswered      |-> Get(session, "unanswered", 0),
                           time_taken      |->
                               Get(session, "time_taken", "0m 0s")])
            /\ session' = SessionEnded(session)
    /\ UNCHANGED <<data_folder, upload_folder, clock, uuid_count,
                   tally_session>>
    /\ UNCHANGED evars

\* time.time() advances between two requests, here by 75 seconds at a time.
Tick ==
    /\ clock + 75 <= MaxClock
    /\ clock' = clock + 75
    /\ UNCHANGED <<session, data_folder, upload_folder, uuid_count, response,
                   tally_session>>
    /\ UNCHANGED evars

SessionNext ==
    \/ Index
    \/ \E req \in UploadRequests :
           Upload(req.has_file, req.filename, req.form, req.doc)
    \/ Exam
    \/ \E form \in AnswerForms : Answer(form)
    \/ \E form \in AnswerForms : NextQuestion(form)
    \/ \E form \in AnswerForms : PreviousQuestion(form)
    \/ \E form \in AnswerForms : Submit(form)
    \/ Results
    \/ Tick

SessionSpec == Init /\ [][SessionNext]_vars

-----------------------------------------------------------------------------
(* Properties of the returned QuestionSet.                                  *)

Done == pc = "done"

\* The read of the document fails: it cannot be opened, or one of its pages
\* yields no text or raises.
ReadFails(doc) ==
    ~doc.opens \/ \E k \in 1..Len(doc.pages) : doc.pages[k].kind # "text"

StartsWith(t, w) == Len(t) >= Len(w) /\ SubSeq(t, 1, Len(w)) = w

\* C1: for any input text the call returns a QuestionSet with at least one
\* record (the placeholder when no real record was produced).
C1_AtLeastOneRecord == Done => Len(ret) >= 1

\* C2: when reading the document fails, the call still returns, and what it
\* returns is exactly one record, whose body is the error diagnostic and which
\* has exactly 4 options; no extracted record comes with it.
C2_ReadFailureIsOneErrorRecord ==
    (pc # "idle" /\ ReadFails(pdf)) =>
        /\ pc = "done"
        /\ path = "except"
        /\ Len(ret) = 1
        /\ StartsWith(ret[1].question, ErrorPrefix)
        /\ Len(ret[1].question) > Len(ErrorPrefix)
        /\ Len(ret[1].options) = 4

\* C2, witnessed: the read fails on the second page, after a page with an
\* extractable question was read.
C2_Witness ==
    /\ Done
    /\ path = "except"
    /\ Len(pdf.pages) = 2
    /\ pdf.pages[1] = TextPage(PagePrime)
    /\ pdf.pages[2].kind = "none"
    /\ full_text = PagePrime \o <<"\n">>
    /\ Len(ret) = 1

BodyBound == MaxBodyLen + Len(Ellipsis)

\* C3: every record of every returned QuestionSet, of the cascade path and
\* of the fallback path alike, has a body of at most 803 characters.
C3_BodyAtMost803 ==
    Done => \A k \in 1..Len(ret) : Len(ret[k].question) <= BodyBound

\* C4: every record of every returned QuestionSet has between 0 and 4 options.
C4_AtMostFourOptions ==
    Done => \A k \in 1..Len(ret) : Len(ret[k].options) \in 0..MaxOptions

\* C4, witnessed: a region of the cascade with more than 4 option lines is
\* returned as a record, and so is a fallback question with more than 4.
C4_Witness ==
    /\ Done
    /\ \/ /\ path = "cascade"
          /\ Len(matches) = 1
          /\ Len(SplitRegion(matches[1]).options) > MaxOptions
          /\ Len(ret) = 1
          /\ Len(ret[1].options) = MaxOptions
       \/ /\ path = "fallback"
          /\ Len(current_options) > MaxOptions
          /\ Len(ret) = 1
          /\ Len(ret[1].options) = MaxOptions

\* The two questions of the example document, as the claim reads them.
SumRecord ==
    [question |-> <<"W", "h", "a", "t", " ", "i", "s", " ", "2", "+", "2", "?">>,
     options |-> <<<<"T", "h", "r", "e", "e">>, <<"F", "o", "u", "r">>, <<"F", "i", "v", "e">>>>]

FranceRecord ==
    [question |-> <<"C", "a", "p", "i", "t", "a", "l", " ", "o", "f", " ", "F", "r", "a", "n", "c", "e", "?">>,
     options |-> <<<<"P", "a", "r", "i", "s">>, <<"L", "y", "o", "n">>,
                   <<"N", "i", "c", "e">>>>]

\* The document is made of questions written as Q.<n> body, each followed by
\* three option lines Ans <k>. text.
IsAnsDocument(doc) ==
    /\ doc.opens
    /\ Len(doc.pages) >= 1
    /\ \A k \in 1..Len(doc.pages) :
           doc.pages[k] \in {TextPage(PageSum), TextPage(PageFrance)}

ExpectedAnsRecords(doc) ==
    [k \in 1..Len(doc.pages) |->
        IF doc.pages[k].text = PageSum THEN SumRecord ELSE FranceRecord]

\* C5: such a document yields one record per question, in order, with the
\* question text as body and the three option texts as options.
C5_AnsQuestionsExtracted ==
    (Done /\ IsAnsDocument(pdf)) => ret = ExpectedAnsRecords(pdf)

\* The call is on the cascade path: in the loop over matches or past it.
OnCascade == pc \in {"loop", "return"} \/ path = "cascade"

\* A captured region whose body is empty or has 10 characters or fewer, or
\* from which fewer than 2 options were extracted.
Dropped(match) ==
    \/ Len(SplitRegion(match).question_text) <= MinBodyLen
    \/ Len(SplitRegion(match).options) < MinOptions

Kept(match) == ~Dropped(match)

Min(a, b) == IF a <= b THEN a ELSE b

\* C6: on the cascade path no record comes from a region whose body has 10
\* characters or fewer or that has fewer than 2 options, and dropping such a
\* region leaves the records of the other regions as they are: after each
\* iteration the records are as many as the other regions seen so far.
C6_FilterCorrect ==
    OnCascade =>
        /\ \A k \in 1..(cursor - 1) :
               Dropped(matches[k]) =>
                   \A j \in 1..Len(questions) :
                       questions[j] # MakeRecord(SplitRegion(matches[k]))
        /\ Len(questions) =
               Min(MaxQuestions,
                   Cardinality({k \in 1..(cursor - 1) : Kept(matches[k])}))
        /\ (Done /\ questions # <<>>) => ret = questions

\* C6, witnessed: a region with a short body and a region with two option
\* lines are dropped next to a region that is returned.
C6_Witness ==
    /\ Done
    /\ path = "cascade"
    /\ \E k \in 1..Len(matches) :
           Len(SplitRegion(matches[k]).question_text) <= MinBodyLen
    /\ \E k \in 1..Len(matches) : Kept(matches[k])
    /\ Len(ret) < Len(matches)
    /\ ret # <<PlaceholderRecord>>

\* No cascade pattern has a match in the text that was read.
NoPatternMatches == \A k \in 1..NumPatterns : FindAll(k, full_text) = <<>>

\* C7: when no cascade pattern has a match, what is returned is what the
\* line scan of the whole text produced, cut to its first 100 records, with
\* nothing added, removed, reordered or altered.
C7_FallbackComplete ==
    (Done /\ ~ReadFails(pdf) /\ NoPatternMatches) =>
        /\ path = "fallback"
        /\ lines = SplitLines(full_text)
        /\ cursor = Len(lines) + 1
        /\ Len(ret) = Min(MaxQuestions, Len(questions))
        /\ \A j \in 1..Len(ret) : ret[j] = questions[j]

\* C7, witnessed: the line scan produced more than 100 records.
C7_Witness ==
    /\ Done
    /\ path = "fallback"
    /\ Len(questions) > MaxQuestions
    /\ Len(ret) = MaxQuestions

\* C8: pattern k is the one selected exactly when it has a match and no
\* pattern before it has one, however many matches a later pattern has; the
\* matches used are its matches, and every record returned comes from them.
C8_FirstPatternWins ==
    (Done /\ ~ReadFails(pdf)) =>
        /\ \A k \in 1..NumPatterns :
               selected = k <=>
                   /\ FindAll(k, full_text) # <<>>
                   /\ \A j \in 1..(k - 1) : FindAll(j, full_text) = <<>>
        /\ selected # 0 =>
               /\ matches = FindAll(selected, full_text)
               /\ \A j \in 1..Len(questions) :
                      \E k \in 1..Len(matches) :
                          questions[j] = MakeRecord(SplitRegion(matches[k]))
               /\ ret = questions \/ ret = <<PlaceholderRecord>>

\* C8, witnessed: the first pattern is selected although the second has more
\* matches.
C8_Witness ==
    /\ Done
    /\ selected = 1
    /\ Len(FindAll(2, full_text)) > Len(FindAll(1, full_text))
    /\ ret # <<PlaceholderRecord>>

\* C9: the line scan runs only when no pattern was selected; when a pattern
\* was selected and every region is dropped, the line scan is not consulted
\* and the result is the one placeholder record, with its 4 options.
C9_PlaceholderNotFallback ==
    /\ (pc = "scan" \/ path = "fallback") => (selected = 0 /\ matches = <<>>)
    /\ selected # 0 =>
           /\ lines = <<>>
           /\ current_question = NoQuestion
           /\ current_options = <<>>
    /\ (Done /\ selected # 0
            /\ \A k \in 1..Len(matches) : Dropped(matches[k])) =>
           /\ Len(ret) = 1
           /\ ret[1].question = NoQuestionsText
           /\ Len(ret[1].options) = 4

\* C9, witnessed: a pattern was selected and all of its regions, more than
\* one, were dropped.
C9_Witness ==
    /\ Done
    /\ selected # 0
    /\ Len(matches) >= 2
    /\ \A k \in 1..Len(matches) : Dropped(matches[k])
    /\ ret = <<PlaceholderRecord>>

\* The regions that are kept, in the order of the text.
KeptRegions == SelectSeq(matches, Kept)

\* C10: on the cascade path the records returned are those of the first (at
\* most 100) regions that are kept, one record per region, in the order of the
\* regions in the text; the loop stops at the region that gave the 100th
\* record; no returned QuestionSet has more than 100 records.
C10_OrderedDenseCapped ==
    /\ Done => Len(ret) <= MaxQuestions
    /\ (Done /\ path = "cascade" /\ KeptRegions # <<>>) =>
           /\ Len(ret) = Min(MaxQuestions, Len(KeptRegions))
           /\ \A j \in 1..Len(ret) :
                  ret[j] = MakeRecord(SplitRegion(KeptRegions[j]))
           /\ Len(SelectSeq(SubSeq(matches, 1, cursor - 1), Kept)) = Len(ret)
           /\ Len(KeptRegions) >= MaxQuestions => Kept(matches[cursor - 1])

\* C10, witnessed: more than 100 regions are kept, and the loop is left
\* before the last of them.
C10_Witness ==
    /\ Done
    /\ path = "cascade"
    /\ Len(KeptRegions) > MaxQuestions
    /\ Len(ret) = MaxQuestions
    /\ cursor <= Len(matches)

\* The number of Question <n> markers in a text.
QuestionMarkers(t) == Cardinality({p \in 1..Len(t) : LA_Question(t, p)})

\* The document is made of questions written as a Question <n> line, a body
\* line and three numbered option lines.
IsQuestionDocument(doc) ==
    /\ doc.opens
    /\ Len(doc.pages) >= 1
    /\ \A k \in 1..Len(doc.pages) :
           doc.pages[k] \in {TextPage(PageGas), TextPage(PageQuiz)}

GasRecord ==
    [question |->
        <<"W", "h", "i", "c", "h", " ", "i", "s", " ", "a", " ", "n", "o",
          "b", "l", "e", " ", "g", "a", "s", "?">>,
     options |-> <<<<"N", "e", "o", "n">>, <<"I", "r", "o", "n">>,
                   <<"Z", "i", "n", "c">>>>]

QuizRecord ==
    [question |->
        <<"W", "h", "i", "c", "h", " ", "m", "e", "t", "a", "l", " ", "i",
          "s", " ", "l", "i", "q", "u", "i", "d", "?">>,
     options |-> <<<<"I", "r", "o", "n">>,
                   <<"M", "e", "r", "c", "u", "r", "y">>,
                   <<"Z", "i", "n", "c">>>>]

\* The questions of such a document, body and options as written.
RECURSIVE ExpectedQuestionRecords(_)
ExpectedQuestionRecords(pages) ==
    IF pages = <<>> THEN <<>>
    ELSE (IF Head(pages).text = PageQuiz
          THEN [j \in 1..5 |-> QuizRecord]
          ELSE <<GasRecord>>) \o ExpectedQuestionRecords(Tail(pages))

IsTwoOptionDocument(doc) ==
    /\ doc.opens
    /\ Len(doc.pages) = 1
    /\ doc.pages[1] \in {TextPage(PageTwoOpts), TextPage(PageLongTwo)}

\* The record of such a question, as the claim reads it.
TwoOptionRecord(doc) ==
    IF doc.pages[1].text = PageTwoOpts
    THEN [question |->
          <<"O", "n", "l", "y", " ", "t", "w", "o", " ", "o", "p", "t", "i",
            "o", "n", "s">>,
          options  |-> <<<<"y", "e", "s">>, <<"n", "o">>>>]
    ELSE [question |-> Rep("x", MaxBodyLen) \o Ellipsis,
          options  |-> <<<<"a">>, <<"b">>>>]

\* C12, as claimed: on the cascade path a region with a body of more than 10
\* characters and exactly 2 valid option lines is emitted as a record with
\* those 2 options, also when the body exceeds 900 characters (it is then cut
\* to 800 characters and "...").
C12_TwoOptionsAccepted ==
    (Done /\ IsTwoOptionDocument(pdf)) => ret = <<TwoOptionRecord(pdf)>>

\* C12, amended: on the cascade path the options of a region are those of
\* the first option pattern with at least 3 matches, so a region never has
\* exactly 1 or 2 options; a region with exactly 2 option lines has none and
\* is dropped, whatever the length of its body, and every record emitted has
\* at least 3 options before the cut to 4.
C12_TwoOptionsDropped ==
    /\ OnCascade =>
           \A k \in 1..(cursor - 1) :
               LET r == SplitRegion(matches[k])
               IN  /\ Len(r.options) \notin 1..(MinOptionMatches - 1)
                   /\ Kept(matches[k]) <=>
                          /\ Len(r.question_text) > MinBodyLen
                          /\ Len(r.options) >= MinOptionMatches
    /\ (Done /\ path = "cascade") =>
           \A j \in 1..Len(ret) :
               Len(ret[j].options) \in MinOptionMatches..MaxOptions
    /\ (Done /\ IsTwoOptionDocument(pdf)) =>
           /\ path = "cascade"
           /\ questions = <<>>
           /\ ret = <<PlaceholderRecord>>

\* C12, witnessed: the one question of the document has a body of more than
\* 900 characters and two option lines, and the placeholder was returned.
C12_Witness ==
    /\ Done
    /\ pdf.pages = <<TextPage(PageLongTwo)>>
    /\ Len(matches) = 1
    /\ Len(SplitRegion(matches[1]).question_text) > 900
    /\ SplitRegion(matches[1]).options = <<>>
    /\ ret = <<PlaceholderRecord>>

\* C13: for every record emitted on the cascade path, a body of at most 800
\* characters is emitted unchanged, with no marker appended, and a body of
\* more than 800 characters is emitted as its first 800 characters followed
\* by "...", 803 characters in all.
C13_CapExact ==
    (Done /\ path = "cascade" /\ KeptRegions # <<>>) =>
        \A j \in 1..Len(ret) :
            LET body == SplitRegion(KeptRegions[j]).question_text
            IN  /\ Len(body) <= MaxBodyLen => ret[j].question = body
                /\ Len(body) > MaxBodyLen =>
                       /\ Len(ret[j].question) = MaxBodyLen + 3
                       /\ \A i \in 1..MaxBodyLen : ret[j].question[i] = body[i]
                       /\ \A i \in 1..3 : ret[j].question[MaxBodyLen + i] = "."

\* C13, witnessed: a region with a body of more than 800 characters was
\* emitted.
C13_Witness ==
    /\ Done
    /\ path = "cascade"
    /\ Len(matches) = 1
    /\ Kept(matches[1])
    /\ Len(SplitRegion(matches[1]).question_text) > MaxBodyLen
    /\ Len(ret) = 1
    /\ Len(ret[1].question) = MaxBodyLen + 3

\* The texts of the option lines of a text, in the order of the lines.
OptionLineTexts(t) ==
    LET stripped == [i \in 1..Len(SplitLines(t)) |-> Strip(SplitLines(t)[i])]
        option   == SelectSeq(stripped, IsOptionLine)
    IN  [i \in 1..Len(option) |-> StripOptionMarker(option[i])]

\* The document is one question followed by option lines, one option to a
\* line, whatever the labels of the lines.
IsOptionListDocument(doc) ==
    /\ doc.opens
    /\ doc.pages \in {<<TextPage(PagePrime)>>, <<TextPage(PageShuffled)>>,
                      <<TextPage(PageShuffledFallback)>>,
                      <<TextPage(PageRiver), TextPage(PageOptions)>>,
                      <<TextPage(PageGas)>>, <<TextPage(PageRiver)>>}

\* The options of the question with the shuffled labels: 3, 1, 1, 2 (and 4).
ShuffledOptions ==
    <<<<"o", "n", "e">>, <<"t", "w", "o">>, <<"t", "w", "o">>,
      <<"f", "o", "u", "r">>>>

\* C16: on both paths the options of a record are in the order of their
\* lines in the text, whatever digit each line carries (labels out of order
\* or repeated neither reorder nor merge options), and of more than 4 option
\* lines the first 4 are kept, in that order.
C16_OptionsInLineOrder ==
    (Done /\ IsOptionListDocument(pdf)) =>
        /\ Len(ret) = 1
        /\ Len(ret[1].options) = Min(4, Len(OptionLineTexts(full_text)))
        /\ \A j \in 1..Len(ret[1].options) :
               ret[1].options[j] = OptionLineTexts(full_text)[j]
        /\ pdf.pages[1].text \in {PageShuffled, PageShuffledFallback} =>
               ret[1].options = ShuffledOptions

\* C16, witnessed: the line scan returned a question with 5 option lines
\* whose labels are out of order and repeated.
C16_Witness ==
    /\ Done
    /\ path = "fallback"
    /\ pdf.pages = <<TextPage(PageShuffledFallback)>>
    /\ Len(current_options) = 5
    /\ ret[1].options = ShuffledOptions


-----------------------------------------------------------------------------
(* Properties of the line scan, checked on extract_by_splitting alone.      *)

\* The line the scan is about to read, stripped.
ThisLine == Strip(lines[cursor])

AtLine == pc = "scan" /\ cursor <= Len(lines)

AtEndOfInput == pc = "scan" /\ cursor > Len(lines)

\* A pending question with a body and at least one option.
PendingComplete == Truthy(current_question) /\ current_options # <<>>

\* Its record: the body, and the first 4 options.
PendingRecord ==
    [question |-> current_question.text,
     options  |-> SubSeq(current_options, 1, Min(4, Len(current_options)))]

\* What follows the marker of a question-start line: the marker is Q or Q.
\* and a number, or Question and a number, with the spaces around the number.
MarkerRemainder(line) ==
    LET d == IF LA_Question(line, 1) THEN RunEnd(line, 9, IsSpace)
             ELSE RunEnd(line, IF At(line, 2) = "." THEN 3 ELSE 2, IsSpace)
    IN  Slice(line, RunEnd(line, RunEnd(line, d, IsDigit), IsSpace),
              Len(line) + 1)

\* C14: on every line that starts with a question-start marker (Q or Q. and
\* a number, or Question and a number) the pending question is emitted, with
\* at most 4 options, exactly when it has a body and at least one option, and
\* is discarded otherwise; the body then becomes the rest of the line after
\* the marker and the options become empty.  The same emission is applied at
\* the end of the input, so every record has a body and at least 1 option.
C14_QuestionStartTransition ==
    [][/\ (AtLine /\ IsQuestionStart(ThisLine)) =>
              /\ questions' = IF PendingComplete
                              THEN Append(questions, PendingRecord)
                              ELSE questions
              /\ ~current_question'.is_none
              /\ current_question'.text = MarkerRemainder(ThisLine)
              /\ current_options' = <<>>
       /\ AtEndOfInput =>
              questions' = IF PendingComplete
                           THEN Append(questions, PendingRecord)
                           ELSE questions
       /\ \A j \in 1..Len(questions') :
              /\ Len(questions'[j].question) > 0
              /\ Len(questions'[j].options) \in 1..4]_vars

\* The line is neither a question start nor an option line.
OtherLine == ~IsQuestionStart(ThisLine) /\ ~IsOptionLine(ThisLine)

\* C15: a line that is neither a question start nor an option line is
\* appended, after one space, to the body whenever a body is set, also one
\* set to the empty remainder of a marker alone on its line, and no option
\* has been collected yet; otherwise such a line changes neither the body nor
\* the options; and once a question has an option its body does not change
\* until the next question-start line.
C15_BodyContinuation ==
    [][/\ (AtLine /\ OtherLine) =>
              IF ~current_question.is_none /\ current_options = <<>>
              THEN /\ current_question' =
                          [is_none |-> FALSE,
                           text    |-> current_question.text \o <<" ">>
                                           \o ThisLine]
                   /\ current_options' = <<>>
              ELSE UNCHANGED <<current_question, current_options>>
       /\ (AtLine /\ current_options # <<>> /\ ~IsQuestionStart(ThisLine)) =>
              current_question' = current_question]_vars

-----------------------------------------------------------------------------
(* Properties of the web application.                                       *)

\* The client has a session.
HasSession == "session_id" \in DOMAIN session

\* The questions file of the client's session exists.
HasStoredSet == HasSession /\ session["session_id"] \in DOMAIN data_folder

\* The QuestionSet stored for the client's session.
StoredSet == data_folder[session["session_id"]]

\* The current question index, as the handlers read it.
CurrentIndex == Get(session, "current_question", 0)

IndexInRange ==
    HasStoredSet => (0 <= CurrentIndex /\ CurrentIndex <= Len(StoredSet) - 1)

\* C17: after any sequence of upload, next, previous, answer and exam
\* requests the current question index is at least 0 and at most
\* len(questions) - 1 for the stored QuestionSet: an upload that starts a
\* session sets it to 0, next adds one only below the last index, previous
\* subtracts one only above 0, and the exam view never indexes outside the set.
C17_IndexInRange ==
    [][/\ IndexInRange'
       /\ response'.to # "IndexError"
       /\ \A req \in UploadRequests :
              (Upload(req.has_file, req.filename, req.form, req.doc)
                   /\ response'.to = "exam") =>
                  session'["current_question"] = 0
       /\ \A form \in AnswerForms :
              (NextQuestion(form) /\ response'.to = "exam") =>
                  session'["current_question"] =
                      IF CurrentIndex < Len(StoredSet) - 1
                      THEN CurrentIndex + 1
                      ELSE CurrentIndex
       /\ \A form \in AnswerForms :
              (PreviousQuestion(form) /\ response'.to = "exam") =>
                  session'["current_question"] =
                      IF CurrentIndex > 0 THEN CurrentIndex - 1
                      ELSE CurrentIndex]_vars

\* The indices under which the session holds an answer.
AnswerKeys == DOMAIN Get(session, "answers", EmptyDict)

\* str(i) for the indices i of a QuestionSet of n records.
IndexKeys(n) == {ToString(i) : i \in 0..(n - 1)}

\* The tallies a submission has left in the session are consistent.
TalliesConsistent ==
    LET total      == session["total_questions"]
        answered   == session["answered"]
        unanswered == session["unanswered"]
    IN  /\ answered + unanswered = total
        /\ 0 <= answered
        /\ answered <= total
        /\ unanswered >= 0

\* C18: at submission, after any sequence of upload, answer, next and previous
\* requests, answered + unanswered = total with 0 <= answered <= total and
\* unanswered >= 0: every recorded answer is keyed by an index of the current
\* QuestionSet, answering a question again replaces its entry instead of
\* adding one, and a new upload starts from an empty answer map.
C18_TalliesConsistent ==
    [][/\ response' = Redirect("results") => TalliesConsistent'
       /\ HasStoredSet' => AnswerKeys' \subseteq IndexKeys(Len(StoredSet'))
       /\ \A form \in AnswerForms :
              ((Answer(form) \/ NextQuestion(form) \/ Submit(form))
                   /\ ToString(CurrentIndex) \in AnswerKeys) =>
                  AnswerKeys' = AnswerKeys
       /\ (HasSession' /\ session'["session_id"] = uuid_count'
               /\ uuid_count' # uuid_count) =>
              AnswerKeys' = {}]_vars

\* The answer map of the session, empty when the session has none.
Answers == Get(session, "answers", EmptyDict)

\* The answer map after a request with this form was served for the question
\* that was current when it arrived.
AnswersAfter(form) ==
    IF "answer" \in DOMAIN form /\ form["answer"] # ""
    THEN Put(Answers, ToString(CurrentIndex), form["answer"])
    ELSE Answers

\* C19: an answer sent with a next or submit request is recorded under the
\* index of the question that was current when the request arrived, before the
\* index advances, and a request carrying no answer leaves the answer map
\* unchanged; a previous request never changes the answer map, even when it
\* carries an answer.
C19_AnswerUnderArrivalIndex ==
    [][\A form \in AnswerForms :
           /\ (response'.to = "exam" /\ NextQuestion(form)) =>
                  Answers' = AnswersAfter(form)
           /\ (response'.to = "results" /\ Submit(form)) =>
                  Answers' = AnswersAfter(form)
           /\ (response'.to \in {"index", "exam"} /\ PreviousQuestion(form)) =>
                  Answers' = Answers]_vars

\* A next request has moved the session from question 0, which has its
\* answer, to question 1, which has none.
C19_Witness ==
    /\ HasStoredSet
    /\ CurrentIndex = 1
    /\ AnswerKeys = {"0"}
    /\ response = Redirect("exam")

\* The tallies a submission has left in the session, as results.html shows
\* them.
SessionTallies ==
    [total_questions |-> session["total_questions"],
     answered        |-> session["answered"],
     unanswered      |-> session["unanswered"],
     time_taken      |-> session["time_taken"]]

\* C20: over any sequence of upload, submit and results requests, the tallies
\* a results request shows are the ones computed by the submit of the exam
\* session that this results request ends: results never ends a session that
\* has not been submitted, never shows tallies left over from an earlier
\* session, and the stored question file of every ended session has been
\* deleted.
C20_ResultsOfSubmittedSession ==
    [][(HasSession /\ ~HasSession') =>
           /\ tally_session = session["session_id"]
           /\ response' = Render("results.html", SessionTallies)
           /\ session["session_id"] \notin DOMAIN data_folder]_vars

=============================================================================
